---- MODULE Spec2Model ----
(***************************************************************************)
(* Model of the business-center canister (azle).  Two versions of the     *)
(* canister are in the repository: src/src/index.ts (with buyProduct and   *)
(* a buyerComments that consults soldItem) and src/unnamed/part_000 (with  *)
(* sellerDeleteBusiness, getinfoAboutAbusiness and a buyerComments without *)
(* the sold check).  `variant` says which of the two is deployed.          *)
(*                                                                         *)
(* Every StableBTreeMap of either version is constructed on memory id 0,   *)
(* so all of them read and write the one stable map `mem0`; the keys are   *)
(* the serialised keys (a text and a Principal serialise differently).     *)
(* An uncaught exception, in a handler or while the reply is encoded,      *)
(* traps: the call is rejected and its writes are rolled back.             *)
(***************************************************************************)
EXTENDS Integers, Sequences, FiniteSets, TLC

VARIABLES
    variant,     \* which version of the canister is installed
    mem0,        \* stable memory 0: serialised key -> value
    uuidCount,   \* how many ids uuidv4 has issued
    reply,       \* the last call: operation, caller, id and identity arguments, kind of reply
    deletedIds,  \* history: the ids a delete call succeeded on
    boughtIds    \* history: the ids a buyProduct call succeeded on

vars == <<variant, mem0, uuidCount, reply, deletedIds, boughtIds>>

\* ------------------------------------------------------------------ bounds

\* ids the uuid generator may issue in one behaviour
MaxIds == 2

\* ------------------------------------------------------------------ inputs

Variants == {"index", "part_000"}

\* the identities that call the canister
Callers == {"p1", "p2"}

\* the identities an account can belong to: "p3" never calls, it only receives
Principals == Callers \cup {"p3"}

\* what the accounts of stable memory 0 hold when the canister starts: nothing on
\* a first install, or balances that an earlier installation left there
StartAccounts ==
    {[p \in {} |-> 0], [p \in {"p1"} |-> 2], [p \in {"p1", "p2"} |-> IF p = "p1" THEN 2 ELSE 1]}

Prices == {1, 2}

\* values of ic.time()
Times == {1}

\* a text argument: the empty text, or an id the generator issues
Texts == {""} \cup {ToString(i) : i \in 1..MaxIds}

\* ------------------------------------------------------------- JS values

undefined == [undefined |-> TRUE]

None == [None |-> "null"]

Some(v) == [Some |-> v]

\* opt.Some! : the non-null assertion is erased, a missing property reads undefined
SomeOf(opt) == IF "Some" \in DOMAIN opt THEN opt.Some ELSE undefined

\* opt.None used as a condition: null on None, undefined on Some, falsy both ways
NoneIsTruthy(opt) == IF "None" \in DOMAIN opt THEN opt.None # "null" ELSE FALSE

Ok(v) == [kind |-> "Ok", val |-> v]

Err(tag, msg) == [kind |-> tag, msg |-> msg]

Trap == [kind |-> "Trap"]

ErrorKinds == {"NotFound", "BadRequest", "Forbidden"}

\* ------------------------------------------------------- stable memory 0

KeyText(t) == <<"text", t>>

KeyPrincipal(p) == <<"principal", p>>

BigInt(n) == [bigint |-> n]

PrincipalValue(p) == [principal |-> p]

get(m, key) == IF key \in DOMAIN m THEN Some(m[key]) ELSE None

insert(m, key, v) == [k \in DOMAIN m \cup {key} |-> IF k = key THEN v ELSE m[k]]

remove(m, key) == [k \in DOMAIN m \ {key} |-> m[k]]

values(m) == {m[k] : k \in DOMAIN m}

\* the four (five) maps, all on memory id 0
businessListingS_get(m, id) == get(m, KeyText(id))
businessListingS_insert(m, id, v) == insert(m, KeyText(id), v)
businessListingS_remove(m, id) == remove(m, KeyText(id))
accounts_get(m, p) == get(m, KeyPrincipal(p))
accounts_insert(m, p, n) == insert(m, KeyPrincipal(p), BigInt(n))
soldItem_get(m, id) == get(m, KeyText(id))
soldItem_insert(m, id, p) == insert(m, KeyText(id), PrincipalValue(p))
commentsOnItems_insert(m, id, v) == insert(m, KeyText(id), v)
businessEnquire_insert(m, id, v) == insert(m, KeyText(id), v)

getBalance(accountOPT) == IF "None" \in DOMAIN accountOPT THEN 0 ELSE accountOPT.Some.bigint

uuidv4(n) == ToString(n + 1)

\* --------------------------------------------------------- reply encoding

IsBusinessListing(v) == {"id", "business", "listedBy", "listedAt", "updatedAt"} \subseteq DOMAIN v

IsCommentListing(v) == {"id", "comment", "listedBy", "timeListed"} \subseteq DOMAIN v

IsEnquireListing(v) == {"id", "question", "listedBy", "timeListed"} \subseteq DOMAIN v

\* A call's outcome: the memory it leaves, its reply, and whether it drew a uuid.
\* A reply that its candid type cannot encode throws: the call traps.
Outcome(before, after, ret, encodable, drew) ==
    IF ret.kind = "Ok" /\ ~encodable
    THEN [mem |-> before, ret |-> Trap, drew |-> drew]
    ELSE [mem |-> after, ret |-> ret, drew |-> drew]

\* ---------------------------------------------------------------- payloads

TextFields == {"name", "location", "zipcode", "continent", "country",
               "labelofProduct", "itemName", "description"}

\* a BusinessPayload with every field present
BasePayload ==
    [name |-> "shop", location |-> "loc", zipcode |-> "zip", continent |-> "cont",
     country |-> "ctry", labelofProduct |-> "label", price |-> 1,
     itemName |-> "item", description |-> "desc"]

ValidPayloads == {[BasePayload EXCEPT !.price = p] : p \in Prices}

\* payloads with one field empty or zero, and one with everything missing
InvalidPayloads ==
    {[BasePayload EXCEPT ![f] = ""] : f \in TextFields}
    \cup {[BasePayload EXCEPT !.price = 0]}
    \cup {[name |-> "", location |-> "", zipcode |-> "", continent |-> "",
           country |-> "", labelofProduct |-> "", price |-> 0,
           itemName |-> "", description |-> ""]}

BusinessPayloads == ValidPayloads \cup InvalidPayloads

\* the payloads the calls of a behaviour carry
CalledPayloads ==
    ValidPayloads \cup {[BasePayload EXCEPT !.name = ""], [BasePayload EXCEPT !.price = 0]}

PayloadIncomplete(payload) ==
    \/ \E f \in TextFields : payload[f] = ""
    \/ payload.price = 0

\* the ids comments and enquiries are about: the empty text and the first id issued
CommentedIds == {"", "1"}

\* commentsPayload of index.ts
CommentPayloadsIndex ==
    [sellerdId : {"p1"}, itemId : CommentedIds, comment : {"", "good"}, rate : {0, 5}]

\* commentsPayload of part_000
CommentPayloadsPart ==
    [businessId : CommentedIds, comment : {"", "good"}, rate : {0, 5}]

EnquiryPayloads == [businessId : CommentedIds, question : {"", "how"}]

\* ---------------------------------------------------------------- handlers

\* missingValue without its last check: a zero price passes
missingValueNoPrice(payload) ==
    IF payload.name = "" THEN "name of busines is missing"
    ELSE IF payload.continent = "" THEN "continent where business id located is missing"
    ELSE IF payload.country = "" THEN "country where business id located is missing"
    ELSE IF payload.location = "" THEN "location where business id located is missing"
    ELSE IF payload.zipcode = "" THEN "zipcode where business id located is missing"
    ELSE IF payload.labelofProduct = "" THEN "label of product is missing"
    ELSE IF payload.description = "" THEN "description of product is missing"
    ELSE IF payload.itemName = "" THEN "item name of product is missing"
    ELSE ""

\* missingValue with the price check inverted: if(payload.price) for if(!payload.price)
missingValuePriceInverted(payload) ==
    IF missingValueNoPrice(payload) # "" THEN missingValueNoPrice(payload)
    ELSE IF payload.price # 0 THEN "price of product is missing"
    ELSE ""

\* the checks of createBusiness, in the code's order: the message of the first
\* field found missing, "" when none is
missingValue(payload) ==
    IF payload.name = "" THEN "name of busines is missing"
    ELSE IF payload.continent = "" THEN "continent where business id located is missing"
    ELSE IF payload.country = "" THEN "country where business id located is missing"
    ELSE IF payload.location = "" THEN "location where business id located is missing"
    ELSE IF payload.zipcode = "" THEN "zipcode where business id located is missing"
    ELSE IF payload.labelofProduct = "" THEN "label of product is missing"
    ELSE IF payload.description = "" THEN "description of product is missing"
    ELSE IF payload.itemName = "" THEN "item name of product is missing"
    ELSE IF payload.price = 0 THEN "price of product is missing"
    ELSE ""

\* newBusinessListing with country and continent filled from each other
newBusinessListingSwapped(caller, payload, now, id) ==
    [id |-> id,
     business |->
         [name |-> payload.name,
          productsSelling |-> payload.itemName,
          labelofProduct |-> payload.labelofProduct,
          price |-> payload.price,
          ownedby |-> payload.name,
          location |-> payload.location,
          country |-> payload.continent,
          continent |-> payload.country,
          zipcode |-> payload.zipcode,
          description |-> payload.description,
          listedAt |-> now,
          updatedAt |-> None],
     listedBy |-> caller,
     listedAt |-> now,
     updatedAt |-> None]

newBusinessListing(caller, payload, now, id) ==
    [id |-> id,
     business |->
         [name |-> payload.name,
          productsSelling |-> payload.itemName,
          labelofProduct |-> payload.labelofProduct,
          price |-> payload.price,
          ownedby |-> payload.name,
          location |-> payload.location,
          country |-> payload.country,
          continent |-> payload.continent,
          zipcode |-> payload.zipcode,
          description |-> payload.description,
          listedAt |-> now,
          updatedAt |-> None],
     listedBy |-> caller,
     listedAt |-> now,
     updatedAt |-> None]

createBusiness(m, caller, payload, now, id) ==
    IF missingValue(payload) # ""
    THEN Outcome(m, m, Err("BadRequest", missingValue(payload)), TRUE, FALSE)
    ELSE LET listing == newBusinessListing(caller, payload, now, id)
         IN Outcome(m, businessListingS_insert(m, listing.id, listing),
                    Ok(listing), IsBusinessListing(listing), TRUE)

getAllBusiness(m) ==
    Outcome(m, m, Ok(values(m)), \A v \in values(m) : IsBusinessListing(v), FALSE)

getSpecificBusiness(m, name) ==
    IF name = ""
    THEN Outcome(m, m, Err("BadRequest", "name of business is missing"), TRUE, FALSE)
    ELSE LET getItem == businessListingS_get(m, name)
         IN IF NoneIsTruthy(getItem)
            THEN Outcome(m, m, Err("BadRequest", "no business with that id if found"), TRUE, FALSE)
            ELSE LET found == SomeOf(businessListingS_get(m, name))
                 IN Outcome(m, m, Ok(found), IsBusinessListing(found), FALSE)

\* the delete call removing the entry before it checks the caller
sellerDeleteProductRemoveFirst(m, caller, itemId) ==
    IF itemId = ""
    THEN Outcome(m, m, Err("BadRequest", "item id is missing"), TRUE, FALSE)
    ELSE LET removeItem == SomeOf(businessListingS_get(m, itemId))
         IN IF removeItem = undefined
            THEN Outcome(m, m, Err("BadRequest", "item with give id not found"), TRUE, FALSE)
            ELSE IF "listedBy" \notin DOMAIN removeItem
            THEN Outcome(m, m, Trap, TRUE, FALSE)
            ELSE IF removeItem.listedBy # caller
            THEN Outcome(m, businessListingS_remove(m, itemId),
                         Err("Forbidden", "only seller can delete the product"), TRUE, FALSE)
            ELSE Outcome(m, businessListingS_remove(m, itemId), Ok(removeItem),
                         IsBusinessListing(removeItem), FALSE)

\* the delete call without the check of the caller
sellerDeleteProductAnyCaller(m, caller, itemId) ==
    IF itemId = ""
    THEN Outcome(m, m, Err("BadRequest", "item id is missing"), TRUE, FALSE)
    ELSE LET removeItem == SomeOf(businessListingS_get(m, itemId))
         IN IF removeItem = undefined
            THEN Outcome(m, m, Err("BadRequest", "item with give id not found"), TRUE, FALSE)
            ELSE Outcome(m, businessListingS_remove(m, itemId), Ok(removeItem),
                         IsBusinessListing(removeItem), FALSE)

\* the delete call without the check that the entry was found, as in buyProduct
sellerDeleteProductNoFoundCheck(m, caller, itemId) ==
    IF itemId = ""
    THEN Outcome(m, m, Err("BadRequest", "item id is missing"), TRUE, FALSE)
    ELSE LET removeItem == SomeOf(businessListingS_get(m, itemId))
         IN IF "listedBy" \notin DOMAIN removeItem
            THEN Outcome(m, m, Trap, TRUE, FALSE)
            ELSE IF removeItem.listedBy # caller
            THEN Outcome(m, m, Err("Forbidden", "only seller can delete the product"), TRUE, FALSE)
            ELSE Outcome(m, businessListingS_remove(m, itemId), Ok(removeItem),
                         IsBusinessListing(removeItem), FALSE)

\* sellerDeleteProduct of index.ts, sellerDeleteBusiness of part_000: the same body
\* sellerDeleteProduct answering Ok without removing the listing
sellerDeleteProductNoRemove(m, caller, itemId) ==
    IF itemId = ""
    THEN Outcome(m, m, Err("BadRequest", "item id is missing"), TRUE, FALSE)
    ELSE LET removeItem == SomeOf(businessListingS_get(m, itemId))
         IN IF removeItem = undefined
            THEN Outcome(m, m, Err("BadRequest", "item with give id not found"), TRUE, FALSE)
            ELSE IF "listedBy" \notin DOMAIN removeItem
            THEN Outcome(m, m, Trap, TRUE, FALSE)
            ELSE IF removeItem.listedBy # caller
            THEN Outcome(m, m, Err("Forbidden", "only seller can delete the product"), TRUE, FALSE)
            ELSE Outcome(m, m, Ok(removeItem), IsBusinessListing(removeItem), FALSE)

sellerDeleteProduct(m, caller, itemId) ==
    IF itemId = ""
    THEN Outcome(m, m, Err("BadRequest", "item id is missing"), TRUE, FALSE)
    ELSE LET removeItem == SomeOf(businessListingS_get(m, itemId))
         IN IF removeItem = undefined
            THEN Outcome(m, m, Err("BadRequest", "item with give id not found"), TRUE, FALSE)
            ELSE IF "listedBy" \notin DOMAIN removeItem
            THEN Outcome(m, m, Trap, TRUE, FALSE)
            ELSE IF removeItem.listedBy # caller
            THEN Outcome(m, m, Err("Forbidden", "only seller can delete the product"), TRUE, FALSE)
            ELSE Outcome(m, businessListingS_remove(m, itemId), Ok(removeItem),
                         IsBusinessListing(removeItem), FALSE)

\* the funds check refusing a balance equal to the price
insufficientTokensStrict(itemPrice, fromBalance) == itemPrice >= fromBalance

\* the funds check of buyProduct
insufficientTokens(itemPrice, fromBalance) == itemPrice > fromBalance

\* buyProduct checking the funds before it checks that the caller is not the seller
buyProductFundsFirst(m, caller, itemId, to) ==
    LET item == SomeOf(businessListingS_get(m, itemId))
    IN IF "listedBy" \notin DOMAIN item \/ "business" \notin DOMAIN item
       THEN Outcome(m, m, Trap, TRUE, FALSE)
       ELSE LET from == caller
                fromBalance == getBalance(accounts_get(m, from))
                itemPrice == item.business.price
            IN IF insufficientTokens(itemPrice, fromBalance)
               THEN Outcome(m, m, Err("BadRequest", "you have insufficient tokens to proceed with transactions"), TRUE, FALSE)
               ELSE IF item.listedBy = caller
               THEN Outcome(m, m, Err("Forbidden", "seller cannot buy the product that he/she is actually selling "), TRUE, FALSE)
               ELSE LET sellerBalance == getBalance(accounts_get(m, to))
                        m1 == accounts_insert(m, from, fromBalance - itemPrice)
                        m2 == accounts_insert(m1, to, sellerBalance + itemPrice)
                        m3 == soldItem_insert(m2, item.id, from)
                        m4 == businessListingS_remove(m3, item.id)
                    IN Outcome(m, m4, Ok(item), IsBusinessListing(item), FALSE)

\* buyProduct crediting the listing's owner instead of `to`
buyProductCreditOwner(m, caller, itemId, to) ==
    LET item == SomeOf(businessListingS_get(m, itemId))
    IN IF "listedBy" \notin DOMAIN item
       THEN Outcome(m, m, Trap, TRUE, FALSE)
       ELSE IF item.listedBy = caller
       THEN Outcome(m, m, Err("Forbidden", "seller cannot buy the product that he/she is actually selling "), TRUE, FALSE)
       ELSE LET from == caller
                fromBalance == getBalance(accounts_get(m, from))
            IN IF "business" \notin DOMAIN item
               THEN Outcome(m, m, Trap, TRUE, FALSE)
               ELSE LET itemPrice == item.business.price
                    IN IF insufficientTokens(itemPrice, fromBalance)
                       THEN Outcome(m, m, Err("BadRequest", "you have insufficient tokens to proceed with transactions"), TRUE, FALSE)
                       ELSE LET sellerBalance == getBalance(accounts_get(m, item.listedBy))
                                m1 == accounts_insert(m, from, fromBalance - itemPrice)
                                m2 == accounts_insert(m1, item.listedBy, sellerBalance + itemPrice)
                                m3 == soldItem_insert(m2, item.id, from)
                                m4 == businessListingS_remove(m3, item.id)
                            IN Outcome(m, m4, Ok(item), IsBusinessListing(item), FALSE)

buyProduct(m, caller, itemId, to) ==
    LET item == SomeOf(businessListingS_get(m, itemId))
    IN IF "listedBy" \notin DOMAIN item
       THEN Outcome(m, m, Trap, TRUE, FALSE)
       ELSE IF item.listedBy = caller
       THEN Outcome(m, m, Err("Forbidden", "seller cannot buy the product that he/she is actually selling "), TRUE, FALSE)
       ELSE LET from == caller
                fromBalance == getBalance(accounts_get(m, from))
            IN IF "business" \notin DOMAIN item
               THEN Outcome(m, m, Trap, TRUE, FALSE)
               ELSE LET itemPrice == item.business.price
                    IN IF insufficientTokens(itemPrice, fromBalance)
                       THEN Outcome(m, m, Err("BadRequest", "you have insufficient tokens to proceed with transactions"), TRUE, FALSE)
                       ELSE LET sellerBalance == getBalance(accounts_get(m, to))
                                m1 == accounts_insert(m, from, fromBalance - itemPrice)
                                m2 == accounts_insert(m1, to, sellerBalance + itemPrice)
                                m3 == soldItem_insert(m2, item.id, from)
                                m4 == businessListingS_remove(m3, item.id)
                            IN Outcome(m, m4, Ok(item), IsBusinessListing(item), FALSE)

\* buyerComments of index.ts (payload.sellerdId is a Principal object: never falsy)
buyerCommentsIndex(m, caller, payload, now, id) ==
    IF payload.itemId = ""
    THEN Outcome(m, m, Err("BadRequest", "item id is missing"), TRUE, FALSE)
    ELSE IF payload.comment = ""
    THEN Outcome(m, m, Err("BadRequest", "comment is missing"), TRUE, FALSE)
    ELSE IF payload.rate = 0
    THEN Outcome(m, m, Err("BadRequest", "rate is missing"), TRUE, FALSE)
    ELSE LET getItem == SomeOf(soldItem_get(m, payload.itemId))
         IN IF getItem = undefined
            THEN Outcome(m, m, Err("BadRequest", "item with given id is missing"), TRUE, FALSE)
            ELSE LET commentListing ==
                         [id |-> id,
                          comment |-> [sellerId |-> payload.sellerdId,
                                       itemId |-> payload.itemId,
                                       comment |-> payload.comment,
                                       rate |-> payload.rate,
                                       listedAt |-> now],
                          listedBy |-> caller,
                          timeListed |-> now]
                 IN Outcome(m, commentsOnItems_insert(m, commentListing.id, commentListing),
                            Ok(commentListing), IsCommentListing(commentListing), TRUE)

\* buyerComments of part_000
buyerCommentsPart(m, caller, payload, now, id) ==
    IF payload.businessId = ""
    THEN Outcome(m, m, Err("BadRequest", "item id is missing"), TRUE, FALSE)
    ELSE IF payload.comment = ""
    THEN Outcome(m, m, Err("BadRequest", "comment is missing"), TRUE, FALSE)
    ELSE IF payload.rate = 0
    THEN Outcome(m, m, Err("BadRequest", "rate is missing"), TRUE, FALSE)
    ELSE LET commentListing ==
                 [id |-> id,
                  comment |-> [businessId |-> payload.businessId,
                               comment |-> payload.comment,
                               rate |-> payload.rate,
                               listedAt |-> now],
                  listedBy |-> caller,
                  timeListed |-> now]
         IN Outcome(m, commentsOnItems_insert(m, commentListing.id, commentListing),
                    Ok(commentListing), IsCommentListing(commentListing), TRUE)

getinfoAboutAbusiness(m, caller, payload, now, id) ==
    IF payload.businessId = ""
    THEN Outcome(m, m, Err("BadRequest", "business id is requires"), TRUE, FALSE)
    ELSE IF payload.question = ""
    THEN Outcome(m, m, Err("BadRequest", "b is requires"), TRUE, FALSE)
    ELSE LET getBusiness == businessListingS_get(m, payload.businessId)
         IN IF NoneIsTruthy(getBusiness)
            THEN Outcome(m, m, Err("BadRequest", "no business with that id found"), TRUE, FALSE)
            ELSE LET enquireListing ==
                         [id |-> id,
                          question |-> [businessId |-> payload.businessId,
                                        question |-> payload.question,
                                        listedAt |-> now],
                          listedBy |-> caller,
                          timeListed |-> now]
                 IN Outcome(m, businessEnquire_insert(m, enquireListing.id, enquireListing),
                            Ok(enquireListing), IsEnquireListing(enquireListing), TRUE)

\* ------------------------------------------------------------ state machine

\* Stable memory outlives the code installed on it: the canister starts with
\* whatever balances memory 0 already holds (none, on a first install).
Init ==
    /\ variant \in Variants
    /\ \E b \in StartAccounts :
          mem0 = [k \in {KeyPrincipal(p) : p \in DOMAIN b} |-> BigInt(b[k[2]])]
    /\ uuidCount = 0
    /\ reply = [op |-> "init", caller |-> "", id |-> "", to |-> "", kind |-> "none"]
    /\ deletedIds = {}
    /\ boughtIds = {}

\* one call, run to completion
Call(op, caller, id, to, out) ==
    LET ret == out.ret
        succeeded == ret.kind = "Ok"
    IN /\ out.drew => uuidCount < MaxIds
       /\ mem0' = out.mem
       /\ uuidCount' = IF out.drew THEN uuidCount + 1 ELSE uuidCount
       /\ reply' = [op |-> op, caller |-> caller, id |-> id, to |-> to, kind |-> ret.kind]
       /\ deletedIds' = IF op = "sellerDelete" /\ succeeded
                        THEN deletedIds \cup {id} ELSE deletedIds
       /\ boughtIds' = IF op = "buyProduct" /\ succeeded
                       THEN boughtIds \cup {id} ELSE boughtIds
       /\ UNCHANGED variant

CreateBusiness ==
    \E caller \in Callers, payload \in CalledPayloads, now \in Times :
        Call("createBusiness", caller, "", "",
             createBusiness(mem0, caller, payload, now, uuidv4(uuidCount)))

GetAllBusiness ==
    /\ variant = "index"
    /\ \E caller \in Callers :
          Call("getAllBusiness", caller, "", "", getAllBusiness(mem0))

GetSpecificBusiness ==
    \E caller \in Callers, name \in Texts :
        Call("getSpecificBusiness", caller, name, "", getSpecificBusiness(mem0, name))

SellerDeleteProduct ==
    \E caller \in Callers, itemId \in Texts :
        Call("sellerDelete", caller, itemId, "", sellerDeleteProduct(mem0, caller, itemId))

BuyProduct ==
    /\ variant = "index"
    /\ \E caller \in Callers, itemId \in Texts, to \in Principals :
          Call("buyProduct", caller, itemId, to, buyProduct(mem0, caller, itemId, to))

BuyerCommentsIndex ==
    /\ variant = "index"
    /\ \E caller \in Callers, payload \in CommentPayloadsIndex, now \in Times :
          Call("buyerComments", caller, payload.itemId, "",
               buyerCommentsIndex(mem0, caller, payload, now, uuidv4(uuidCount)))

BuyerCommentsPart ==
    /\ variant = "part_000"
    /\ \E caller \in Callers, payload \in CommentPayloadsPart, now \in Times :
          Call("buyerComments", caller, payload.businessId, "",
               buyerCommentsPart(mem0, caller, payload, now, uuidv4(uuidCount)))

GetinfoAboutAbusiness ==
    /\ variant = "part_000"
    /\ \E caller \in Callers, payload \in EnquiryPayloads, now \in Times :
          Call("getinfoAboutAbusiness", caller, payload.businessId, "",
               getinfoAboutAbusiness(mem0, caller, payload, now, uuidv4(uuidCount)))

Next ==
    \/ CreateBusiness
    \/ GetAllBusiness
    \/ GetSpecificBusiness
    \/ SellerDeleteProduct
    \/ BuyProduct
    \/ BuyerCommentsIndex
    \/ BuyerCommentsPart
    \/ GetinfoAboutAbusiness

Spec == Init /\ [][Next]_vars

\* ------------------------------------------------------------------ views

Balance(m, p) == getBalance(accounts_get(m, p))

RECURSIVE SumBalances(_, _)
SumBalances(m, ps) ==
    IF ps = {} THEN 0
    ELSE LET p == CHOOSE q \in ps : TRUE
         IN Balance(m, p) + SumBalances(m, ps \ {p})

TotalBalance(m) == SumBalances(m, Principals)

\* id is the key of a stored business listing
LiveListing(m, id) == KeyText(id) \in DOMAIN m /\ IsBusinessListing(m[KeyText(id)])

ListingAt(m, id) == m[KeyText(id)]

LiveIds(m) == {k[2] : k \in {j \in DOMAIN m : IsBusinessListing(m[j])}}

BuySucceeded == reply'.op = "buyProduct" /\ reply'.kind = "Ok"

\* ------------------------------------------------------------------ claims

\* C1: a successful buyProduct(itemId, to), whoever calls it and whatever `to`
\* is, leaves the sum of all account balances as it was.
C1_SupplyConserved ==
    [][BuySucceeded => TotalBalance(mem0') = TotalBalance(mem0)]_vars

\* C2: after a successful buyProduct(itemId, to) the caller's balance is its old
\* balance minus the listing price and the balance of `to` is its old balance
\* plus the listing price.
C2_DebitAndCredit ==
    [][BuySucceeded =>
          LET price == ListingAt(mem0, reply'.id).business.price
          IN /\ Balance(mem0', reply'.caller) = Balance(mem0, reply'.caller) - price
             /\ Balance(mem0', reply'.to) = Balance(mem0, reply'.to) + price]_vars

\* C3: after a successful buyProduct(itemId, to) the listing is gone from the
\* listings, getSpecificBusiness(itemId) does not return it, and soldItem holds
\* the caller under itemId. (The claim's last clause, that no id is at once a
\* live listing and a key of soldItem, fails on the same memory: LiveIsAlsoSold.)
C3_SoldRecorded ==
    [][BuySucceeded =>
          /\ ~LiveListing(mem0', reply'.id)
          /\ getSpecificBusiness(mem0', reply'.id).ret.kind # "Ok"
          /\ soldItem_get(mem0', reply'.id) = Some(PrincipalValue(reply'.caller))]_vars

\* every live listing is read back by soldItem.get under its own id
LiveIsAlsoSold == \A id \in LiveIds(mem0) : soldItem_get(mem0, id) # None

\* C4: a call that returns a tagged error (BadRequest, Forbidden, NotFound)
\* leaves every collection, that is all of stable memory, as it was.
C4_ErrorsWriteNothing ==
    [][reply'.kind \in ErrorKinds => mem0' = mem0]_vars

C4_Witness ==
    /\ reply.op = "sellerDelete"
    /\ reply.kind = "Forbidden"
    /\ LiveListing(mem0, reply.id)

\* C5: buyProduct on a live listing by a caller who is not its owner returns
\* BadRequest exactly when price > the caller's balance (no account: 0), and
\* then nothing changes; when price <= balance it succeeds.
C5_InsufficientFunds ==
    [][(/\ reply'.op = "buyProduct"
        /\ LiveListing(mem0, reply'.id)
        /\ ListingAt(mem0, reply'.id).listedBy # reply'.caller) =>
          LET price == ListingAt(mem0, reply'.id).business.price
              balance == Balance(mem0, reply'.caller)
          IN /\ (reply'.kind = "BadRequest") <=> (price > balance)
             /\ price > balance => mem0' = mem0
             /\ price <= balance => reply'.kind = "Ok"]_vars

\* a caller with no account at all is refused, the listing stays
C5_Witness ==
    /\ reply.op = "buyProduct"
    /\ reply.kind = "BadRequest"
    /\ LiveListing(mem0, reply.id)
    /\ KeyPrincipal(reply.caller) \notin DOMAIN mem0

\* C6: buyProduct called by the listing's owner returns Forbidden and changes
\* nothing, whatever the owner's balance and whatever `to` is; so no purchase
\* ever records the listing's owner as the buyer.
C6_OwnerCannotBuy ==
    [][/\ (/\ reply'.op = "buyProduct"
           /\ LiveListing(mem0, reply'.id)
           /\ ListingAt(mem0, reply'.id).listedBy = reply'.caller) =>
             (reply'.kind = "Forbidden" /\ mem0' = mem0)
       /\ BuySucceeded => ListingAt(mem0, reply'.id).listedBy # reply'.caller]_vars

\* the owner could have paid, and named someone else as seller
C6_Witness ==
    /\ reply.op = "buyProduct"
    /\ reply.kind = "Forbidden"
    /\ LiveListing(mem0, reply.id)
    /\ ListingAt(mem0, reply.id).listedBy = reply.caller
    /\ Balance(mem0, reply.caller) >= ListingAt(mem0, reply.id).business.price
    /\ reply.to # reply.caller

\* C7: the delete call on a live listing returns Forbidden and leaves it when
\* the caller is not its owner; when the caller is the owner it removes exactly
\* that listing, returns the removed record, and the listing is no longer
\* retrievable. A delete call removes no listing but its owner's.
C7_OnlyOwnerDeletes ==
    [][reply'.op = "sellerDelete" =>
          /\ LiveListing(mem0, reply'.id) =>
                IF ListingAt(mem0, reply'.id).listedBy # reply'.caller
                THEN reply'.kind = "Forbidden" /\ mem0' = mem0
                ELSE /\ reply'.kind = "Ok"
                     /\ sellerDeleteProduct(mem0, reply'.caller, reply'.id).ret
                            = Ok(ListingAt(mem0, reply'.id))
                     /\ mem0' = remove(mem0, KeyText(reply'.id))
                     /\ getSpecificBusiness(mem0', reply'.id).ret.kind # "Ok"
          /\ \A id \in LiveIds(mem0) \ LiveIds(mem0') :
                id = reply'.id /\ ListingAt(mem0, id).listedBy = reply'.caller]_vars

\* the owner deleted one listing while another one stays
C7_Witness ==
    /\ reply.op = "sellerDelete"
    /\ reply.kind = "Ok"
    /\ ~LiveListing(mem0, reply.id)
    /\ LiveIds(mem0) # {}

\* C8: once a delete call on id has succeeded, every later delete call on id, by
\* any caller, returns BadRequest and changes nothing.
C8_SecondDeleteNotFound ==
    [][(reply'.op = "sellerDelete" /\ reply'.id \in deletedIds) =>
          (reply'.kind = "BadRequest" /\ mem0' = mem0)]_vars

C8_Witness ==
    /\ reply.op = "sellerDelete"
    /\ reply.kind = "BadRequest"
    /\ reply.id \in deletedIds
    /\ LiveIds(mem0) # {}

\* C9: createBusiness with a payload in which a required field is empty or the
\* price is zero returns BadRequest and leaves the listings (all of memory)
\* as they were.
C9_IncompletePayloadRejected ==
    \A caller \in Callers, payload \in InvalidPayloads, now \in Times :
        LET out == createBusiness(mem0, caller, payload, now, uuidv4(uuidCount))
        IN /\ PayloadIncomplete(payload)
           /\ out.ret.kind = "BadRequest"
           /\ out.mem = mem0
           /\ LiveIds(out.mem) = LiveIds(mem0)

\* an incomplete payload was refused while listings were stored
C9_Witness ==
    /\ reply.op = "createBusiness"
    /\ reply.kind = "BadRequest"
    /\ Cardinality(LiveIds(mem0)) = MaxIds

IssuedIds == {uuidv4(i) : i \in 0..(uuidCount - 1)}

\* C10: createBusiness with a complete payload returns a record with the
\* payload's fields, the caller as owner, no updatedAt and an id never issued
\* before; getSpecificBusiness(id) then returns that record, and everything
\* stored before is still stored, unchanged.
C10_CreateStoresPayload ==
    \A caller \in Callers, payload \in ValidPayloads, now \in Times :
        LET out == createBusiness(mem0, caller, payload, now, uuidv4(uuidCount))
            rec == out.ret.val
        IN /\ ~PayloadIncomplete(payload)
           /\ out.ret.kind = "Ok"
           /\ rec.business.name = payload.name
           /\ rec.business.productsSelling = payload.itemName
           /\ rec.business.labelofProduct = payload.labelofProduct
           /\ rec.business.price = payload.price
           /\ rec.business.location = payload.location
           /\ rec.business.country = payload.country
           /\ rec.business.continent = payload.continent
           /\ rec.business.zipcode = payload.zipcode
           /\ rec.business.description = payload.description
           /\ rec.listedBy = caller
           /\ rec.updatedAt = None
           /\ rec.business.updatedAt = None
           /\ rec.id \notin IssuedIds
           /\ KeyText(rec.id) \notin DOMAIN mem0
           /\ getSpecificBusiness(out.mem, rec.id).ret = Ok(rec)
           /\ \A k \in DOMAIN mem0 : k \in DOMAIN out.mem /\ out.mem[k] = mem0[k]
           /\ LiveIds(out.mem) = LiveIds(mem0) \cup {rec.id}

\* a second listing was created beside the first
C10_Witness ==
    /\ reply.op = "createBusiness"
    /\ reply.kind = "Ok"
    /\ Cardinality(LiveIds(mem0)) >= 2

\* C11: every listing stored has price > 0.
C11_PricePositive ==
    \A id \in LiveIds(mem0) : ListingAt(mem0, id).business.price > 0

\* listings of both prices are stored
C11_Witness ==
    /\ reply.op = "createBusiness"
    /\ reply.kind = "Ok"
    /\ {ListingAt(mem0, id).business.price : id \in LiveIds(mem0)} = Prices

\* ------------------------------------------------- balances near the top

\* The width of nat64, scaled down: the model's nat64 holds 0..2^NatBits - 1.
NatBits == 3

MaxNat64 == 2^NatBits - 1

\* accounts an earlier installation left, one of them at the top of nat64
StartAccountsNearMax ==
    {[p \in {"p1", "p3"} |-> IF p = "p1" THEN 2 ELSE MaxNat64]}

InitNearMax ==
    /\ variant \in Variants
    /\ \E b \in StartAccountsNearMax :
          mem0 = [k \in {KeyPrincipal(p) : p \in DOMAIN b} |-> BigInt(b[k[2]])]
    /\ uuidCount = 0
    /\ reply = [op |-> "init", caller |-> "", id |-> "", to |-> "", kind |-> "none"]
    /\ deletedIds = {}
    /\ boughtIds = {}

SpecNearMax == InitNearMax /\ [][Next]_vars

\* C12: every stored balance is a valid nat64: never negative (the debit does
\* not underflow) and never above the top of nat64 (the credit does not
\* overflow), whatever nat64 balances the accounts start with.
C12_BalancesAreNat64 ==
    \A p \in Principals : Balance(mem0, p) >= 0 /\ Balance(mem0, p) <= MaxNat64

\* the half of C12 that the funds check gives: no balance is ever negative
BalancesNonNegative == \A p \in Principals : Balance(mem0, p) >= 0


\* the enquiries stored in memory m, by key
Enquiries(m) == {k \in DOMAIN m : IsEnquireListing(m[k])}

\* C13: getinfoAboutAbusiness inserts and returns an enquiry only if a listing
\* with that businessId is stored at the time of the call; about an id with no
\* listing (never created, or removed) it returns BadRequest and inserts
\* nothing; enquiries already recorded stay.
C13_EnquiryNeedsListing ==
    [][/\ reply'.op = "getinfoAboutAbusiness" =>
             /\ reply'.kind = "Ok" => LiveListing(mem0, reply'.id)
             /\ ~LiveListing(mem0, reply'.id) =>
                    (reply'.kind = "BadRequest" /\ mem0' = mem0)
       /\ \A k \in Enquiries(mem0) : k \in DOMAIN mem0' /\ mem0'[k] = mem0[k]]_vars

\* the half of C13 that holds: a recorded enquiry is never changed or removed
EnquiriesStay ==
    [][\A k \in Enquiries(mem0) : k \in DOMAIN mem0' /\ mem0'[k] = mem0[k]]_vars


\* the comments stored in memory m, by key
Comments(m) == {k \in DOMAIN m : IsCommentListing(m[k])}

\* C14: in the canister that has buyProduct, every stored comment refers to an
\* itemId that has a sold record.
C14_CommentsOnlyOnSold ==
    variant = "index" =>
        \A k \in Comments(mem0) : soldItem_get(mem0, mem0[k].comment.itemId) # None

\* the part of C14 that holds: a comment on an id under which the memory holds
\* nothing is refused with BadRequest and inserts nothing
CommentOnMissingRefused ==
    [][(/\ variant = "index"
        /\ reply'.op = "buyerComments"
        /\ reply'.id # ""
        /\ soldItem_get(mem0, reply'.id) = None)
       => (reply'.kind = "BadRequest" /\ mem0' = mem0)]_vars


\* C15: buyProduct on an itemId under which no listing is stored (never created,
\* already deleted or already purchased) never returns success and leaves the
\* accounts, the sold records and the listings (all of memory) unchanged.
C15_BuyMissingChangesNothing ==
    [][(/\ reply'.op = "buyProduct"
        /\ \/ ~LiveListing(mem0, reply'.id)
           \/ reply'.id \in deletedIds
           \/ reply'.id \in boughtIds)
       => (reply'.kind # "Ok" /\ mem0' = mem0)]_vars

C15_Witness ==
    /\ reply.op = "buyProduct"
    /\ reply.kind = "Trap"
    /\ reply.id \in boughtIds
    /\ deletedIds # {}


\* C16: buyProduct succeeds at most once for a listing id; a sold record, once
\* written, is never overwritten or removed; no id is both successfully deleted
\* and successfully bought.
C16_SoldOnceAndKept ==
    /\ \A id \in boughtIds : soldItem_get(mem0, id) # None
    /\ boughtIds \cap deletedIds = {}

\* the parts of C16 that hold: a second purchase of an id never succeeds, and
\* no id is both deleted and bought
BoughtAtMostOnce ==
    [][(reply'.op = "buyProduct" /\ reply'.id \in boughtIds) => reply'.kind # "Ok"]_vars

NeverDeletedAndBought == boughtIds \cap deletedIds = {}


\* C17: a successful buyProduct(itemId, to) credits the price to `to` and to no
\* other account: when `to` is not the listing's owner the owner's balance is
\* unchanged, and every account other than the caller's and `to`'s is unchanged.
C17_CreditGoesToTo ==
    [][BuySucceeded =>
          LET item == ListingAt(mem0, reply'.id)
          IN /\ Balance(mem0', reply'.to) = Balance(mem0, reply'.to) + item.business.price
             /\ reply'.to # item.listedBy =>
                    Balance(mem0', item.listedBy) = Balance(mem0, item.listedBy)
             /\ \A p \in Principals \ {reply'.caller, reply'.to} :
                    Balance(mem0', p) = Balance(mem0, p)]_vars

\* p1 has bought p2's listing with to = p3: p3 holds the price, p2 its own token
C17_Witness ==
    /\ reply.op = "buyProduct"
    /\ reply.kind = "Ok"
    /\ reply.caller = "p1"
    /\ reply.to = "p3"
    /\ Balance(mem0, "p3") > 0
    /\ Balance(mem0, "p2") = 1


\* C18: the collections are independent: an insert into one never changes what
\* another returns for any key. createBusiness inserts into the listings only,
\* so no lookup of a sold record changes across it.
C18_CollectionsIndependent ==
    [][reply'.op = "createBusiness" =>
          \A id \in Texts : soldItem_get(mem0', id) = soldItem_get(mem0, id)]_vars

\* what does hold: the text-keyed collections and the principal-keyed accounts
\* never meet, their serialised keys differ
AccountsApartFromTextKeys ==
    [][reply'.op \in {"createBusiness", "sellerDelete", "buyerComments", "getinfoAboutAbusiness"}
          => \A p \in Principals : accounts_get(mem0', p) = accounts_get(mem0, p)]_vars


\* C19: a stored listing is never modified between its creation and its
\* removal, and what the Listing collection holds under a key changes only by a
\* successful createBusiness (one entry added) or by a successful delete or
\* buyProduct (the targeted entry removed).
C19_ListingsOnlyCreatedOrRemoved ==
    [][\A id \in Texts :
          LET before == businessListingS_get(mem0, id)
              after == businessListingS_get(mem0', id)
          IN before # after =>
                \/ /\ reply'.op = "createBusiness"
                   /\ reply'.kind = "Ok"
                   /\ before = None
                \/ /\ reply'.op \in {"sellerDelete", "buyProduct"}
                   /\ reply'.kind = "Ok"
                   /\ reply'.id = id
                   /\ after = None]_vars

\* the part of C19 that holds: the entries that are listings change only so
ListingRecordsOnlyCreatedOrRemoved ==
    [][\A id \in Texts :
          /\ (LiveListing(mem0, id) /\ LiveListing(mem0', id)) =>
                 ListingAt(mem0', id) = ListingAt(mem0, id)
          /\ (~LiveListing(mem0, id) /\ LiveListing(mem0', id)) =>
                 (reply'.op = "createBusiness" /\ reply'.kind = "Ok"
                    /\ LiveIds(mem0') = LiveIds(mem0) \cup {id})
          /\ (LiveListing(mem0, id) /\ ~LiveListing(mem0', id)) =>
                 (reply'.op \in {"sellerDelete", "buyProduct"} /\ reply'.kind = "Ok"
                    /\ reply'.id = id /\ LiveIds(mem0') = LiveIds(mem0) \ {id})]_vars


\* the canister as installed, with nothing in stable memory
InitFresh ==
    /\ variant \in Variants
    /\ mem0 = [k \in {} |-> None]
    /\ uuidCount = 0
    /\ reply = [op |-> "init", caller |-> "", id |-> "", to |-> "", kind |-> "none"]
    /\ deletedIds = {}
    /\ boughtIds = {}

SpecFresh == InitFresh /\ [][Next]_vars

\* C20: from the empty canister no account ever holds a balance, no buyProduct
\* call succeeds, and buyerComments of the canister that checks the sold record
\* never inserts a comment.
C20_NothingBoughtNoComment ==
    [][/\ \A p \in Principals : Balance(mem0', p) = 0
       /\ reply'.op = "buyProduct" => reply'.kind # "Ok"
       /\ (variant = "index" /\ reply'.op = "buyerComments") =>
              (reply'.kind # "Ok" /\ Comments(mem0') = {})]_vars

\* the parts of C20 that hold: the accounts stay empty and nothing is bought
FreshAccountsStayEmpty ==
    /\ \A p \in Principals : accounts_get(mem0, p) = None
    /\ boughtIds = {}

FreshBuyOnListingFails ==
    [][(reply'.op = "buyProduct" /\ LiveListing(mem0, reply'.id)) =>
          (reply'.kind \in {"Forbidden", "BadRequest"} /\ mem0' = mem0)]_vars

====
